---- MODULE Spec2Model ----
(***************************************************************************)
(* Model of controllers/aero_info_calls.go: the quiesce decision of        *)
(* waitForNodeSafeStopReady, the bounded stability polling of              *)
(* waitForClusterStability and the topology filter of                      *)
(* newAllHostConnWithOption.                                               *)
(***************************************************************************)
EXTENDS Integers, Sequences, FiniteSets, TLC

\* ---- bounds of the model ------------------------------------------------
MaxNs == 2
MaxPods == 1
MaxTopoPods == 3
MaxPort == 2
MaxStrLen == 5
MaxSepLen == 1

\* ---- program constants --------------------------------------------------
maxRetry == 12
requeueSeconds == 60

\* The pod argument of waitForNodeSafeStopReady (the node to be quiesced).
TargetPod == 1

VARIABLES
  namespaces,     \* cluster: listed namespaces, in listing order, each [sc, inRoster]
  podList,        \* cluster: pods returned by getClusterPodList, in lister order
  ignorablePods,  \* argument: names of the ignorable pods
  pc,             \* position of the running call
  nsIdx,          \* position of the range loop over namespaces
  ns,             \* namespace handed to waitForNodeSafeStopReadyAndQuiesce (0: none)
  allHostConns,   \* connections built by newAllHostConnWithOption
  idx,            \* loop counter of waitForClusterStability
  isStable,       \* the function-level isStable of waitForClusterStability
  result,         \* reconcileResult returned by the call
  trace,          \* external calls made so far, in order
  quiesced,       \* InfoQuiesce commands issued so far
  ret,            \* value returned by a directly called helper
  args,           \* arguments of a directly called helper
  aeroCluster     \* r.aeroCluster.Spec.AerospikeConfig: the heartbeat ports

vars == <<namespaces, podList, ignorablePods, pc, nsIdx, ns, allHostConns,
          idx, isStable, result, trace, quiesced, ret, args, aeroCluster>>

\* ---- reconcileResult ----------------------------------------------------
\* err is a sequence of message parts, <<>> standing for nil.
NilErr == <<>>

\* The zero reconcileResult, held while the call is still running.
NoResult == [isSuccess |-> FALSE, err |-> NilErr, requeueAfter |-> 0]

reconcileSuccess == [isSuccess |-> TRUE, err |-> NilErr, requeueAfter |-> 0]

reconcileError(e) == [isSuccess |-> FALSE, err |-> e, requeueAfter |-> 0]

reconcileRequeueAfter(secs) == [isSuccess |-> FALSE, err |-> NilErr, requeueAfter |-> secs]

\* fmt.Errorf("<prefix>: %v", err)
Errorf(prefix, e) == <<prefix>> \o e

\* ---- pods ---------------------------------------------------------------
PodStates == [ready : BOOLEAN, terminating : BOOLEAN]

\* Pod lists of length n; the pod at position i is named i.
PodListsOfLen(n) ==
  { [i \in 1..n |-> [name |-> i, ready |-> f[i].ready, terminating |-> f[i].terminating]] :
      f \in [1..n -> PodStates] }

PodLists(max) == UNION { PodListsOfLen(n) : n \in 0..max }

IsPodTerminating(pod) == pod.terminating

IsPodRunningAndReady(pod) == pod.ready

\* utils.GetPod(name, pods) # nil
GetPod(name, ignorable) == name \in ignorable

\* newHostConn never fails: newAsConn always returns a nil error.
newHostConn(pod) == pod.name

\* Faulty variant: terminating pods are not skipped.
RECURSIVE HostConnLoop_KeepTerminating(_, _, _, _)
HostConnLoop_KeepTerminating(pods, ignorable, i, hostConns) ==
  IF i > Len(pods) THEN [conns |-> hostConns, err |-> NilErr]
  ELSE LET pod == pods[i] IN
    IF ~IsPodRunningAndReady(pod) THEN
      IF GetPod(pod.name, ignorable)
        THEN HostConnLoop_KeepTerminating(pods, ignorable, i + 1, hostConns)
        ELSE [conns |-> <<>>, err |-> <<"pod is not ready", ToString(pod.name)>>]
    ELSE HostConnLoop_KeepTerminating(pods, ignorable, i + 1,
                                      Append(hostConns, newHostConn(pod)))

\* Faulty variant: a pod that is not ready is skipped whether it is ignorable
\* or not.
RECURSIVE HostConnLoop_SkipNotReady(_, _, _, _)
HostConnLoop_SkipNotReady(pods, ignorable, i, hostConns) ==
  IF i > Len(pods) THEN [conns |-> hostConns, err |-> NilErr]
  ELSE LET pod == pods[i] IN
    IF IsPodTerminating(pod) \/ ~IsPodRunningAndReady(pod)
      THEN HostConnLoop_SkipNotReady(pods, ignorable, i + 1, hostConns)
      ELSE HostConnLoop_SkipNotReady(pods, ignorable, i + 1,
                                     Append(hostConns, newHostConn(pod)))

\* The range loop of newAllHostConnWithOption from position i on, hostConns
\* holding the connections appended so far.
RECURSIVE HostConnLoop(_, _, _, _)
HostConnLoop(pods, ignorable, i, hostConns) ==
  IF i > Len(pods) THEN [conns |-> hostConns, err |-> NilErr]
  ELSE LET pod == pods[i] IN
    IF IsPodTerminating(pod) THEN HostConnLoop(pods, ignorable, i + 1, hostConns)
    ELSE IF ~IsPodRunningAndReady(pod) THEN
      IF GetPod(pod.name, ignorable)
        THEN HostConnLoop(pods, ignorable, i + 1, hostConns)
        ELSE [conns |-> <<>>, err |-> <<"pod is not ready", ToString(pod.name)>>]
    ELSE HostConnLoop(pods, ignorable, i + 1, Append(hostConns, newHostConn(pod)))

\* Faulty variant: the length of the pod list is not checked.
newAllHostConnWithOption_NoEmptyCheck(pods, ignorable, listErr) ==
  IF listErr THEN [conns |-> <<>>, err |-> <<"pod list error">>]
  ELSE HostConnLoop(pods, ignorable, 1, <<>>)

\* listErr: getClusterPodList failed.
newAllHostConnWithOption(pods, ignorable, listErr) ==
  IF listErr THEN [conns |-> <<>>, err |-> <<"pod list error">>]
  ELSE IF Len(pods) = 0 THEN [conns |-> <<>>, err |-> <<"pod list empty">>]
  ELSE HostConnLoop(pods, ignorable, 1, <<>>)

\* ---- trace of external calls --------------------------------------------
\* arg: the namespace queried, or the attempt number of a sleep or a poll.
Ev(op, arg, ans) == [op |-> op, arg |-> arg, ans |-> ans]

NsConfigs == [sc : BOOLEAN, inRoster : BOOLEAN]

NsLists == UNION { [1..n -> NsConfigs] : n \in 0..MaxNs }

\* ---- initial states -----------------------------------------------------
\* A port that is not configured (a nil *int).
NilPort == 0

\* No helper is called on its own and no heartbeat port is read.
NoHelper ==
  /\ args = <<>>
  /\ aeroCluster = [heartbeatTlsPort |-> NilPort, heartbeatPort |-> NilPort]

Idle ==
  /\ nsIdx = 1
  /\ ns = 0
  /\ allHostConns = <<>>
  /\ idx = 1
  /\ isStable = FALSE
  /\ result = NoResult
  /\ trace = <<>>
  /\ quiesced = <<>>
  /\ ret = [listErr |-> FALSE, conns |-> <<>>, err |-> NilErr]

Init ==
  /\ namespaces \in NsLists
  /\ podList \in PodLists(MaxPods)
  /\ ignorablePods \in SUBSET (1..MaxPods)
  /\ pc = "start"
  /\ Idle
  /\ NoHelper

\* ---- waitForNodeSafeStopReady -------------------------------------------
Return(res) ==
  /\ result' = res
  /\ pc' = "done"

\* Position of the range loop after moving to namespace i.
LoopAt(i) == IF i > Len(namespaces) THEN "noScope" ELSE "checkSC"

\* newHostConn, getClientPolicy, getNamespaces.
GetNamespaces ==
  /\ pc = "start"
  /\ \E failed \in BOOLEAN :
       IF failed
         THEN /\ trace' = Append(trace, Ev("getNamespaces", 0, "error"))
              /\ Return(reconcileError(<<"getNamespaces failed">>))
              /\ UNCHANGED nsIdx
         ELSE /\ trace' = Append(trace, Ev("getNamespaces", 0, "ok"))
              /\ nsIdx' = 1
              /\ pc' = LoopAt(1)
              /\ UNCHANGED result
  /\ UNCHANGED <<args, aeroCluster, namespaces, podList, ignorablePods, ns, allHostConns, idx,
                 isStable, quiesced, ret>>

\* Faulty variant: a namespace is never selected on the strong-consistency test.
SelectOnSC_Never(isEnabled) == FALSE

\* if !isEnabled: the namespace is used as the quiesce scope.
SelectOnSC(isEnabled) == ~isEnabled

\* Faulty variant: the error of isNamespaceSCEnabled is not checked, isEnabled
\* being false when the query failed.
CheckSC_ErrUnchecked ==
  /\ pc = "checkSC"
  /\ \E failed \in BOOLEAN :
       LET isEnabled == IF failed THEN FALSE ELSE namespaces[nsIdx].sc IN
       /\ trace' = Append(trace, Ev("isNamespaceSCEnabled", nsIdx,
                                    IF failed THEN "error"
                                    ELSE IF isEnabled THEN "true" ELSE "false"))
       /\ IF SelectOnSC(isEnabled)
            THEN ns' = nsIdx /\ pc' = "waitSTS"
            ELSE ns' = ns /\ pc' = "checkRoster"
       /\ UNCHANGED result
  /\ UNCHANGED <<args, aeroCluster, namespaces, podList, ignorablePods, nsIdx,
                 allHostConns, idx, isStable, quiesced, ret>>

\* isNamespaceSCEnabled for the current namespace.
CheckSC ==
  /\ pc = "checkSC"
  /\ \E failed \in BOOLEAN :
       IF failed
         THEN /\ trace' = Append(trace, Ev("isNamespaceSCEnabled", nsIdx, "error"))
              /\ Return(reconcileError(<<"isNamespaceSCEnabled failed">>))
              /\ UNCHANGED ns
         ELSE LET isEnabled == namespaces[nsIdx].sc IN
              /\ trace' = Append(trace, Ev("isNamespaceSCEnabled", nsIdx,
                                           IF isEnabled THEN "true" ELSE "false"))
              /\ IF SelectOnSC(isEnabled)
                   THEN ns' = nsIdx /\ pc' = "waitSTS"
                   ELSE ns' = ns /\ pc' = "checkRoster"
              /\ UNCHANGED result
  /\ UNCHANGED <<args, aeroCluster, namespaces, podList, ignorablePods, nsIdx, allHostConns, idx,
                 isStable, quiesced, ret>>

\* Faulty variant: the roster answer is not looked at.
SelectOnRoster_Always(isInRoster) == TRUE

\* Faulty variant: the roster test is negated.
SelectOnRoster_Inverted(isInRoster) == ~isInRoster

\* if isInRoster: the namespace is used as the quiesce scope.
SelectOnRoster(isInRoster) == isInRoster

\* isNodeInRoster for the current namespace, then the next loop round.
CheckRoster ==
  /\ pc = "checkRoster"
  /\ \E failed \in BOOLEAN :
       IF failed
         THEN /\ trace' = Append(trace, Ev("isNodeInRoster", nsIdx, "error"))
              /\ Return(reconcileError(<<"isNodeInRoster failed">>))
              /\ UNCHANGED <<ns, nsIdx>>
         ELSE LET isInRoster == namespaces[nsIdx].inRoster IN
              /\ trace' = Append(trace, Ev("isNodeInRoster", nsIdx,
                                           IF isInRoster THEN "true" ELSE "false"))
              /\ IF SelectOnRoster(isInRoster)
                   THEN ns' = nsIdx /\ pc' = "waitSTS" /\ UNCHANGED nsIdx
                   ELSE ns' = ns /\ nsIdx' = nsIdx + 1 /\ pc' = LoopAt(nsIdx + 1)
              /\ UNCHANGED result
  /\ UNCHANGED <<args, aeroCluster, namespaces, podList, ignorablePods, allHostConns, idx,
                 isStable, quiesced, ret>>

\* The loop ended without selecting a namespace: quiesce not needed.
NoScope ==
  /\ pc = "noScope"
  /\ Return(reconcileSuccess)
  /\ UNCHANGED <<args, aeroCluster, namespaces, podList, ignorablePods, nsIdx, ns, allHostConns,
                 idx, isStable, trace, quiesced, ret>>

\* ---- waitForNodeSafeStopReadyAndQuiesce ---------------------------------
\* Faulty variant: the loop has no bound.
LoopContinues_Unbounded(i) == TRUE

\* Faulty variant: the loop bound is off by one.
LoopContinues_OffByOne(i) == i < maxRetry

\* for idx := ...; idx <= maxRetry; idx++
LoopContinues(i) == i <= maxRetry

\* Faulty variant: the first poll is made without a wait.
StabilityLoopAt_NoFirstSleep(i) ==
  IF LoopContinues(i) THEN (IF i = 1 THEN "poll" ELSE "sleep") ELSE "afterLoop"

\* Position of the loop of waitForClusterStability at round i.
StabilityLoopAt(i) == IF LoopContinues(i) THEN "sleep" ELSE "afterLoop"

\* Faulty variant: the error of waitForAllSTSToBeReady is not checked.
waitForAllSTSToBeReady_ErrUnchecked ==
  /\ pc = "waitSTS"
  /\ \E failed \in BOOLEAN :
       /\ trace' = Append(trace, Ev("waitForAllSTSToBeReady", ns,
                                    IF failed THEN "error" ELSE "ok"))
       /\ pc' = "probe"
       /\ UNCHANGED result
  /\ UNCHANGED <<args, aeroCluster, namespaces, podList, ignorablePods, nsIdx,
                 ns, allHostConns, idx, isStable, quiesced, ret>>

\* err := r.waitForAllSTSToBeReady()
waitForAllSTSToBeReady ==
  /\ pc = "waitSTS"
  /\ \E failed \in BOOLEAN :
       IF failed
         THEN /\ trace' = Append(trace, Ev("waitForAllSTSToBeReady", ns, "error"))
              /\ Return(reconcileError(Errorf("failed to wait for cluster to be ready",
                                              <<"statefulset not ready">>)))
         ELSE /\ trace' = Append(trace, Ev("waitForAllSTSToBeReady", ns, "ok"))
              /\ pc' = "probe"
              /\ UNCHANGED result
  /\ UNCHANGED <<args, aeroCluster, namespaces, podList, ignorablePods, nsIdx, ns, allHostConns,
                 idx, isStable, quiesced, ret>>

\* allHostConns, err := r.newAllHostConnWithOption(ignorablePods), followed by
\* the entry of waitForClusterStability.
NewAllHostConn ==
  /\ pc = "probe"
  /\ \E listErr \in BOOLEAN :
       LET r == newAllHostConnWithOption(podList, ignorablePods, listErr) IN
       /\ trace' = Append(trace, Ev("getClusterPodList", ns,
                                    IF listErr THEN "error" ELSE "ok"))
       /\ IF r.err # NilErr
            THEN /\ Return(reconcileError(
                      Errorf("failed to get hostConn for aerospike cluster nodes", r.err)))
                 /\ UNCHANGED <<allHostConns, idx, isStable>>
            ELSE /\ allHostConns' = r.conns
                 /\ idx' = 1
                 /\ isStable' = FALSE
                 /\ pc' = StabilityLoopAt(1)
                 /\ UNCHANGED result
  /\ UNCHANGED <<args, aeroCluster, namespaces, podList, ignorablePods, nsIdx, ns, quiesced, ret>>

\* ---- waitForClusterStability --------------------------------------------
\* time.Sleep(retryInterval)
Sleep ==
  /\ pc = "sleep"
  /\ trace' = Append(trace, Ev("Sleep", idx, "ok"))
  /\ pc' = "poll"
  /\ UNCHANGED <<args, aeroCluster, namespaces, podList, ignorablePods, nsIdx, ns, allHostConns,
                 idx, isStable, result, quiesced, ret>>

\* isStable, err := deployment.IsClusterAndStable(...) inside the loop body:
\* := declares a new isStable in the scope of the body, so the isStable of
\* the function keeps the value it had.
AssignIsStable(outer, polled) == outer

\* Faulty variant: the poll error is not checked.
PollFailed_Ignored(ans) == FALSE

\* if err != nil { return reconcileError(err) }
PollFailed(ans) == ans = "error"

\* Faulty variant: the loop does not break.
BreakLoop_Never(polled) == FALSE

\* if isStable { break }, on the isStable of the loop body.
BreakLoop(polled) == polled

\* One poll of the loop and the loop's reaction to it.
Poll ==
  /\ pc = "poll"
  /\ \E ans \in {"stable", "unstable", "error"} :
       /\ trace' = Append(trace, Ev("IsClusterAndStable", idx, ans))
       /\ IF PollFailed(ans)
            THEN /\ Return(reconcileError(<<"IsClusterAndStable failed">>))
                 /\ UNCHANGED <<idx, isStable>>
            ELSE /\ isStable' = AssignIsStable(isStable, ans = "stable")
                 /\ IF BreakLoop(ans = "stable")
                      THEN pc' = "afterLoop" /\ UNCHANGED idx
                      ELSE idx' = idx + 1 /\ pc' = StabilityLoopAt(idx + 1)
                 /\ UNCHANGED result
  /\ UNCHANGED <<args, aeroCluster, namespaces, podList, ignorablePods, nsIdx, ns, allHostConns,
                 quiesced, ret>>

\* Faulty variant: the test of isStable is negated.
StabilityResult_Inverted(stable) ==
  IF stable THEN reconcileRequeueAfter(requeueSeconds) ELSE reconcileSuccess

\* if !isStable { return reconcileRequeueAfter(60) }; return reconcileSuccess()
StabilityResult(stable) ==
  IF ~stable THEN reconcileRequeueAfter(requeueSeconds) ELSE reconcileSuccess

\* The return of waitForClusterStability and what the caller does with it:
\* a result that is not a success is returned as it is, otherwise
\* InfoQuiesce is issued for the target pod, scoped to ns.
QuiesceNode ==
  /\ pc = "afterLoop"
  /\ LET res == StabilityResult(isStable) IN
       IF ~res.isSuccess
         THEN /\ Return(res)
              /\ UNCHANGED <<trace, quiesced>>
         ELSE \E failed \in BOOLEAN :
              /\ trace' = Append(trace, Ev("InfoQuiesce", ns,
                                           IF failed THEN "error" ELSE "ok"))
              /\ quiesced' = Append(quiesced,
                                    [ns |-> ns, target |-> TargetPod,
                                     conns |-> allHostConns, ok |-> ~failed])
              /\ Return(IF failed THEN reconcileError(<<"InfoQuiesce failed">>)
                                  ELSE reconcileSuccess)
  /\ UNCHANGED <<args, aeroCluster, namespaces, podList, ignorablePods, nsIdx, ns, allHostConns,
                 idx, isStable, ret>>

Next ==
  \/ GetNamespaces
  \/ CheckSC
  \/ CheckRoster
  \/ NoScope
  \/ waitForAllSTSToBeReady
  \/ NewAllHostConn
  \/ Sleep
  \/ Poll
  \/ QuiesceNode

Spec == Init /\ [][Next]_vars

\* The call runs to its return: the reconciler runs it synchronously, with
\* nothing else scheduled in between.
SpecLive == Spec /\ WF_vars(Next)

\* ---- newAllHostConnWithOption called on its own -------------------------
InitTopo ==
  /\ namespaces = <<>>
  /\ podList \in PodLists(MaxTopoPods)
  /\ ignorablePods \in SUBSET (1..MaxTopoPods)
  /\ pc = "topo"
  /\ Idle
  /\ NoHelper

CallNewAllHostConn ==
  /\ pc = "topo"
  /\ \E listErr \in BOOLEAN :
       LET r == newAllHostConnWithOption(podList, ignorablePods, listErr) IN
       ret' = [listErr |-> listErr, conns |-> r.conns, err |-> r.err]
  /\ pc' = "topoDone"
  /\ UNCHANGED <<args, aeroCluster, namespaces, podList, ignorablePods, nsIdx, ns, allHostConns,
                 idx, isStable, result, trace, quiesced>>

NextTopo == CallNewAllHostConn

SpecTopo == InitTopo /\ [][NextTopo]_vars

\* ---- tipHostname and tipClearHostname -----------------------------------
\* Heartbeat ports that can be configured; NilPort stands for none.
Ports == 1..MaxPort

\* tipHostname calls asConn.TipHostname, tipClearHostname calls
\* asConn.TipClearHostname.
TipCall(op) == IF op = "tipHostname" THEN "TipHostname" ELSE "TipClearHostname"

InitTip ==
  /\ namespaces = <<>>
  /\ podList = <<>>
  /\ ignorablePods = {}
  /\ pc = "tipTLS"
  /\ Idle
  /\ args \in [op : {"tipHostname", "tipClearHostname"},
               pod : 1..MaxTopoPods, clearPod : 1..MaxTopoPods]
  /\ aeroCluster \in [heartbeatTlsPort : Ports \cup {NilPort},
                      heartbeatPort : Ports \cup {NilPort}]

\* Faulty variant: the port is used without the nil test.
ChannelConfigured_Always(port) == TRUE

\* if heartbeatTlsPort != nil, if heartbeatPort != nil
ChannelConfigured(port) == port # NilPort

\* One asConn.TipHostname or asConn.TipClearHostname call on a channel.
TipEv(channel, port, ans) ==
  [op |-> TipCall(args.op), arg |-> port, ans |-> ans, channel |-> channel,
   conn |-> args.pod, peer |-> args.clearPod]

\* The call on one heartbeat channel: skipped when the port is nil, and a
\* failure returns the error of the call.
TipOn(channel, port, nextPc) ==
  IF ChannelConfigured(port)
    THEN \E failed \in BOOLEAN :
           IF failed
             THEN /\ trace' = Append(trace, TipEv(channel, port, "error"))
                  /\ ret' = [err |-> <<TipCall(args.op), channel, "failed">>]
                  /\ pc' = "tipDone"
             ELSE /\ trace' = Append(trace, TipEv(channel, port, "ok"))
                  /\ ret' = IF nextPc = "tipDone" THEN [err |-> NilErr] ELSE ret
                  /\ pc' = nextPc
    ELSE /\ trace' = trace
         /\ ret' = IF nextPc = "tipDone" THEN [err |-> NilErr] ELSE ret
         /\ pc' = nextPc

\* newAsConn and the call on the TLS heartbeat port.
TipTLS ==
  /\ pc = "tipTLS"
  /\ TipOn("tls", aeroCluster.heartbeatTlsPort, "tipPlain")
  /\ UNCHANGED <<args, aeroCluster, namespaces, podList, ignorablePods, nsIdx,
                 ns, allHostConns, idx, isStable, result, quiesced>>

\* The call on the plain heartbeat port, and return nil.
TipPlain ==
  /\ pc = "tipPlain"
  /\ TipOn("plain", aeroCluster.heartbeatPort, "tipDone")
  /\ UNCHANGED <<args, aeroCluster, namespaces, podList, ignorablePods, nsIdx,
                 ns, allHostConns, idx, isStable, result, quiesced>>

NextTip == TipTLS \/ TipPlain

SpecTip == InitTip /\ [][NextTip]_vars

\* ---- ParseInfoIntoMap ---------------------------------------------------
\* A string is a sequence of characters.
Chars == {"a", ";", "="}

StringsOfLen(lo, hi) == UNION { [1..n -> Chars] : n \in lo..hi }

\* strings.Index: the position of the first occurrence of sub in s (0: none).
Index(s, sub) ==
  LET At(i) == SubSeq(s, i, i + Len(sub) - 1) = sub
      P == { i \in 1..(Len(s) - Len(sub) + 1) : At(i) }
  IN IF P = {} THEN 0 ELSE CHOOSE i \in P : \A j \in P : i <= j

\* strings.Split: s cut at the occurrences of sep, from the left; with an
\* empty sep, s exploded into its characters.
RECURSIVE Split(_, _)
Split(s, sep) ==
  IF sep = <<>> THEN [i \in 1..Len(s) |-> <<s[i]>>]
  ELSE LET i == Index(s, sep) IN
    IF i = 0 THEN <<s>>
    ELSE <<SubSeq(s, 1, i - 1)>> \o Split(SubSeq(s, i + Len(sep), Len(s)), sep)

\* strings.Join
RECURSIVE Join(_, _)
Join(elems, sep) ==
  IF Len(elems) = 0 THEN <<>>
  ELSE IF Len(elems) = 1 THEN elems[1]
  ELSE elems[1] \o sep \o Join(Tail(elems), sep)

\* m := map[string]string{}
EmptyMap == [k \in {} |-> <<>>]

\* m[k] = v
MapPut(m, k, v) == [x \in DOMAIN m \cup {k} |-> IF x = k THEN v ELSE m[x]]

\* Faulty variant: the value is the second part alone.
ItemValue_SecondOnly(kv, sep) == kv[2]

\* strings.Join(kv[1:], sep)
ItemValue(kv, sep) == Join(Tail(kv), sep)

\* The range loop of ParseInfoIntoMap from item i on, m holding the entries
\* made so far.
RECURSIVE ParseLoop(_, _, _, _)
ParseLoop(items, sep, i, m) ==
  IF i > Len(items) THEN [m |-> m, isNil |-> FALSE, err |-> NilErr]
  ELSE LET item == items[i] IN
    IF item = <<>> THEN ParseLoop(items, sep, i + 1, m)
    ELSE LET kv == Split(item, sep) IN
      IF Len(kv) < 2
        THEN [m |-> EmptyMap, isNil |-> TRUE,
              err |-> <<"error parsing info item">> \o item]
        ELSE ParseLoop(items, sep, i + 1, MapPut(m, kv[1], ItemValue(kv, sep)))

ParseInfoIntoMap(str, del, sep) ==
  IF str = <<>> THEN [m |-> EmptyMap, isNil |-> FALSE, err |-> NilErr]
  ELSE ParseLoop(Split(str, del), sep, 1, EmptyMap)

InitParse ==
  /\ namespaces = <<>>
  /\ podList = <<>>
  /\ ignorablePods = {}
  /\ pc = "parse"
  /\ Idle
  /\ args \in [str : StringsOfLen(0, MaxStrLen),
               del : StringsOfLen(1, MaxSepLen),
               sep : StringsOfLen(1, MaxSepLen)]
  /\ aeroCluster = [heartbeatTlsPort |-> NilPort, heartbeatPort |-> NilPort]

CallParseInfoIntoMap ==
  /\ pc = "parse"
  /\ ret' = ParseInfoIntoMap(args.str, args.del, args.sep)
  /\ pc' = "parseDone"
  /\ UNCHANGED <<args, aeroCluster, namespaces, podList, ignorablePods, nsIdx,
                 ns, allHostConns, idx, isStable, result, trace, quiesced>>

NextParse == CallParseInfoIntoMap

SpecParse == InitParse /\ [][NextParse]_vars

\* ======================================================================
\* Properties
\* ======================================================================
Events(op) == { i \in DOMAIN trace : trace[i].op = op }

Seen(op, arg, ans) == \E i \in DOMAIN trace : trace[i] = Ev(op, arg, ans)

PollEvents == Events("IsClusterAndStable")

NumPolls == Cardinality(PollEvents)

SomePollStable == \E i \in PollEvents : trace[i].ans = "stable"

AllPollsUnstable == \A i \in PollEvents : trace[i].ans = "unstable"

NoCallFailed == \A i \in DOMAIN trace : trace[i].ans # "error"

ClassifierOps == {"isNamespaceSCEnabled", "isNodeInRoster"}

\* Events made inside waitForNodeSafeStopReadyAndQuiesce, which carry its ns.
QuiesceCallOps == {"waitForAllSTSToBeReady", "getClusterPodList", "InfoQuiesce"}

\* The namespace at position n can serve as quiesce scope, by the cluster's
\* configuration.
Qualifies(n) == ~namespaces[n].sc \/ namespaces[n].inRoster

\* C1 - Roster safety: whenever waitForNodeSafeStopReadyAndQuiesce is entered
\* (and whenever InfoQuiesce is issued) with namespace ns, that namespace was
\* observed earlier in the same call as not strong-consistency, or as
\* strong-consistency with the target pod in its roster; a strong-consistency
\* namespace without the target in its roster is never the scope.
C1_RosterSafety ==
  LET ObservedOk(n) ==
        \/ Seen("isNamespaceSCEnabled", n, "false")
        \/ /\ Seen("isNamespaceSCEnabled", n, "true")
           /\ Seen("isNodeInRoster", n, "true")
  IN /\ ns # 0 => ObservedOk(ns)
     /\ \A i \in DOMAIN trace :
          trace[i].op \in QuiesceCallOps =>
            /\ trace[i].arg \in DOMAIN namespaces
            /\ ObservedOk(trace[i].arg)
            /\ ~(namespaces[trace[i].arg].sc /\ ~namespaces[trace[i].arg].inRoster)
     /\ \A q \in DOMAIN quiesced :
          /\ ObservedOk(quiesced[q].ns)
          /\ ~(namespaces[quiesced[q].ns].sc /\ ~namespaces[quiesced[q].ns].inRoster)

\* A strong-consistency namespace without the target in its roster was
\* passed over and the next one, with the target in its roster, became the
\* scope of a quiesce attempt that went on to poll the cluster.
C1_Witness ==
  /\ pc = "done"
  /\ ns = 2
  /\ namespaces[1].sc /\ ~namespaces[1].inRoster
  /\ namespaces[2].sc /\ namespaces[2].inRoster
  /\ NumPolls > 0

\* C2 - First match wins: the scope is the first namespace in listing order
\* that qualifies; one scope at most is chosen per call; no namespace after
\* the chosen one is queried; the roster is only queried for namespaces that
\* are strong-consistency; and the loop ends without a scope only when no
\* namespace qualifies.
C2_FirstMatchWins ==
  /\ ns # 0 =>
       /\ ns \in DOMAIN namespaces
       /\ Qualifies(ns)
       /\ \A j \in 1..(ns - 1) : ~Qualifies(j)
       /\ \A i \in DOMAIN trace : trace[i].op \in ClassifierOps => trace[i].arg <= ns
  /\ Cardinality(Events("waitForAllSTSToBeReady")) <= 1
  /\ \A i \in DOMAIN trace : trace[i].op \in QuiesceCallOps => trace[i].arg = ns /\ ns # 0
  /\ \A i \in Events("isNodeInRoster") : namespaces[trace[i].arg].sc
  /\ \A i, j \in DOMAIN trace :
       (i < j /\ trace[i].op \in ClassifierOps /\ trace[j].op \in ClassifierOps)
         => trace[i].arg <= trace[j].arg
  /\ pc = "noScope" => \A j \in DOMAIN namespaces : ~Qualifies(j)

\* The first of two qualifying namespaces was chosen, the second one never
\* queried.
C2_Witness ==
  /\ pc = "done"
  /\ Len(namespaces) = 2
  /\ Qualifies(1) /\ Qualifies(2)
  /\ ns = 1
  /\ NumPolls > 0

\* No namespace of the cluster qualifies.
NothingQualifies == \A j \in DOMAIN namespaces : ~Qualifies(j)

\* C3 - No-scope correctness: when the namespace list is empty or every
\* namespace is strong-consistency without the target in its roster, the call
\* makes no readiness wait, no stability poll and no quiesce, and, its
\* classifier queries having answered, returns Success.
C3_NoScope ==
  NothingQualifies =>
    /\ ns = 0
    /\ \A i \in DOMAIN trace : trace[i].op \in ClassifierOps \cup {"getNamespaces"}
    /\ quiesced = <<>>
    /\ (pc = "done" /\ NoCallFailed) => result = reconcileSuccess
    /\ pc = "done" => result.requeueAfter = 0

\* Two strong-consistency namespaces, the target in neither roster: both were
\* queried and the call returned Success.
C3_Witness ==
  /\ pc = "done"
  /\ Len(namespaces) = 2
  /\ NothingQualifies
  /\ Seen("isNodeInRoster", 2, "false")
  /\ result = reconcileSuccess

\* The attempt numbers of the polls are 1, 2, ... in the order of the polls.
PollsNumbered ==
  \A i \in PollEvents :
    trace[i].arg = Cardinality({ j \in PollEvents : j <= i })

\* C4 - Stability before quiesce: an InfoQuiesce command is only ever issued
\* after a poll of the same call answered stable; a call whose polls all
\* answered unstable or failed issues no quiesce.
C4_StabilityBeforeQuiesce ==
  /\ \A i \in Events("InfoQuiesce") :
       \E j \in PollEvents : j < i /\ trace[j].ans = "stable"
  /\ quiesced # <<>> => SomePollStable
  /\ Len(quiesced) = Cardinality(Events("InfoQuiesce"))

\* A call ended by a poll error on the third attempt, after two unstable
\* polls, without a quiesce.
C4_Witness ==
  /\ pc = "done"
  /\ NumPolls = 3
  /\ ~SomePollStable
  /\ \E i \in PollEvents : trace[i].ans = "error"
  /\ quiesced = <<>>

\* C5 - Drain completes when the cluster is stable: with a qualifying
\* namespace, no failing call and a stable poll among the first maxRetry,
\* the finished call has issued exactly one quiesce, scoped to the selected
\* namespace and addressed to the target pod, and has returned Success.
C5_DrainCompletes ==
  (/\ pc = "done"
   /\ ns # 0 /\ Qualifies(ns)
   /\ \A i \in DOMAIN podList : podList[i].terminating \/ podList[i].ready
   /\ \E i \in DOMAIN podList : ~podList[i].terminating /\ podList[i].ready
   /\ NoCallFailed
   /\ SomePollStable /\ NumPolls <= maxRetry) =>
    /\ Len(quiesced) = 1
    /\ quiesced[1].ns = ns
    /\ quiesced[1].target = TargetPod
    /\ quiesced[1].conns = allHostConns
    /\ result = reconcileSuccess

\* C6 - RequeueAfter only on budget exhaustion: a finished call returns
\* RequeueAfter(60) only after maxRetry polls that all answered unstable, and
\* a call in which a poll answered stable gets Success from
\* waitForClusterStability, so it does not end in RequeueAfter.
C6_RequeueOnlyOnExhaustion ==
  pc = "done" =>
    /\ result.requeueAfter # 0 =>
         /\ result = reconcileRequeueAfter(requeueSeconds)
         /\ NumPolls = maxRetry
         /\ AllPollsUnstable
    /\ SomePollStable => result.requeueAfter = 0

\* C7 - Early stop: when a poll answers stable on attempt k, it is the k-th
\* and last poll of the call: no sleep and no poll follows it.
C7_EarlyStop ==
  /\ PollsNumbered
  /\ \A i \in PollEvents :
       trace[i].ans = "stable" =>
         /\ trace[i].arg \in 1..maxRetry
         /\ NumPolls = trace[i].arg
         /\ \A j \in PollEvents : j < i => trace[j].ans = "unstable"
         /\ \A j \in DOMAIN trace :
              j > i => trace[j].op \notin {"IsClusterAndStable", "Sleep"}

\* The poll answered stable on the fifth attempt and the call has returned.
C7_Witness ==
  /\ pc = "done"
  /\ Seen("IsClusterAndStable", 5, "stable")
  /\ NumPolls = 5

\* C8 - Retry bound: polls that all answer unstable number maxRetry at most;
\* the call that made them ends after exactly maxRetry polls with
\* RequeueAfter(60) and without a quiesce.
C8_RetryBound ==
  /\ NumPolls <= maxRetry
  /\ (NumPolls > 0 /\ AllPollsUnstable /\ pc \in {"afterLoop", "done"}) =>
       /\ NumPolls = maxRetry
       /\ quiesced = <<>>
       /\ pc = "done" => result = reconcileRequeueAfter(requeueSeconds)

\* maxRetry unstable polls, then RequeueAfter(60).
C8_Witness ==
  /\ pc = "done"
  /\ NumPolls = maxRetry
  /\ AllPollsUnstable
  /\ result = reconcileRequeueAfter(requeueSeconds)
  /\ Events("InfoQuiesce") = {}

\* C9 - Poll error is fatal and immediate: a poll that fails is the last
\* call made; the call has returned Error carrying the poll's error and no
\* quiesce was issued.
C9_PollErrorFatal ==
  \A i \in PollEvents :
    trace[i].ans = "error" =>
      /\ i = Len(trace)
      /\ pc = "done"
      /\ result = reconcileError(<<"IsClusterAndStable failed">>)
      /\ quiesced = <<>>
      /\ Events("InfoQuiesce") = {}

\* The poll failed on the fourth attempt.
C9_Witness ==
  /\ pc = "done"
  /\ Seen("IsClusterAndStable", 4, "error")
  /\ result.err # NilErr

\* The pods of the list that are neither terminating nor ready, nor named in
\* the ignorable set.
Blocking ==
  { i \in DOMAIN podList :
      /\ ~podList[i].terminating
      /\ ~podList[i].ready
      /\ podList[i].name \notin ignorablePods }

\* The names of the pods that are ready and not terminating, in lister order.
EligibleNames ==
  LET sel == SelectSeq(podList, LAMBDA p : ~p.terminating /\ p.ready)
  IN [i \in 1..Len(sel) |-> sel[i].name]

\* C10 - Topology filtering: for a pod list the lister returned, (a) no
\* terminating pod is among the connections and the call fails with 'pod is
\* not ready' only for a pod that is not terminating; (b) if a
\* non-terminating, not-ready pod is not ignorable the call fails with 'pod
\* is not ready' for the first such pod and returns no connections; (c) with
\* every such pod ignorable the call does not fail on a non-empty list;
\* (d) on success the connections are those of exactly the non-terminating
\* ready pods, in lister order.
C10_TopologyFiltering ==
  (pc = "topoDone" /\ ~ret.listErr) =>
    /\ \A c \in DOMAIN ret.conns :
         \E i \in DOMAIN podList :
           podList[i].name = ret.conns[c] /\ ~podList[i].terminating
    /\ Blocking # {} =>
         /\ ret.conns = <<>>
         /\ \E i \in Blocking :
              /\ \A j \in Blocking : i <= j
              /\ ret.err = <<"pod is not ready", ToString(podList[i].name)>>
    /\ (Blocking = {} /\ podList # <<>>) => ret.err = NilErr
    /\ ret.err = NilErr => ret.conns = EligibleNames

\* A terminating pod that is not ready, an ignorable not-ready pod and a ready
\* pod: the call succeeds with the ready pod's connection alone.
C10_Witness ==
  /\ pc = "topoDone"
  /\ ~ret.listErr
  /\ Len(podList) = 3
  /\ podList[1].terminating /\ ~podList[1].ready /\ 1 \notin ignorablePods
  /\ ~podList[2].terminating /\ ~podList[2].ready /\ 2 \in ignorablePods
  /\ ~podList[3].terminating /\ podList[3].ready
  /\ ret.err = NilErr
  /\ ret.conns = <<3>>

\* Every pod of the list is skipped by the loop: it is terminating, or it is
\* not ready and ignorable.
AllSkipped ==
  \A i \in DOMAIN podList :
    \/ podList[i].terminating
    \/ ~podList[i].ready /\ podList[i].name \in ignorablePods

\* C11 as stated - Empty topology is an error: newAllHostConnWithOption never
\* returns success with zero connections.
C11_EmptyTopologyIsError ==
  pc = "topoDone" => (ret.err = NilErr => ret.conns # <<>>)

\* C11 as amended - only an empty pod list is an error: the call fails with
\* 'pod list empty' exactly when the lister returned no pods; a non-empty
\* list whose pods are all terminating or not-ready and ignorable gives
\* success with zero connections.
C11_EmptyListIsError ==
  (pc = "topoDone" /\ ~ret.listErr) =>
    /\ podList = <<>> => (ret.err = <<"pod list empty">> /\ ret.conns = <<>>)
    /\ ret.err = <<"pod list empty">> => podList = <<>>
    /\ (podList # <<>> /\ AllSkipped) => (ret.err = NilErr /\ ret.conns = <<>>)
    /\ (ret.err = NilErr /\ ret.conns = <<>>) => (podList # <<>> /\ AllSkipped)

\* A terminating pod and an ignorable not-ready pod: success, no connection.
C11_Witness ==
  /\ pc = "topoDone"
  /\ ~ret.listErr
  /\ Len(podList) = 2
  /\ podList[1].terminating
  /\ ~podList[2].terminating /\ ~podList[2].ready /\ 2 \in ignorablePods
  /\ ret.err = NilErr
  /\ ret.conns = <<>>

\* The error a failing classifier call returns.
ClassifierError(op) ==
  CASE op = "getNamespaces" -> <<"getNamespaces failed">>
    [] op = "isNamespaceSCEnabled" -> <<"isNamespaceSCEnabled failed">>
    [] op = "isNodeInRoster" -> <<"isNodeInRoster failed">>

\* C13 - Classifier failure aborts the attempt: when getNamespaces,
\* isNamespaceSCEnabled or isNodeInRoster fails, it is the last call made:
\* the call has returned Error with that error, no further namespace is
\* evaluated, no scope is selected and there is no readiness wait, topology
\* probe, stability poll or quiesce.
C13_ClassifierFailureAborts ==
  \A i \in DOMAIN trace :
    (trace[i].op \in ClassifierOps \cup {"getNamespaces"} /\ trace[i].ans = "error") =>
      /\ i = Len(trace)
      /\ pc = "done"
      /\ result = reconcileError(ClassifierError(trace[i].op))
      /\ ns = 0
      /\ \A j \in DOMAIN trace : trace[j].op \in ClassifierOps \cup {"getNamespaces"}
      /\ \A j \in DOMAIN trace : trace[j].op \in ClassifierOps => trace[j].arg <= trace[i].arg
      /\ quiesced = <<>>

\* The roster query failed at the first of two namespaces; the second one,
\* which qualifies, was not evaluated.
C13_Witness ==
  /\ pc = "done"
  /\ Len(namespaces) = 2
  /\ Qualifies(2)
  /\ Seen("isNodeInRoster", 1, "error")
  /\ Len(trace) = 3
  /\ result = reconcileError(<<"isNodeInRoster failed">>)

NumSleeps == Cardinality(Events("Sleep"))

\* The three outcomes of a reconcileResult.
IsSuccess(res) == res = reconcileSuccess

IsError(res) == res.err # NilErr /\ res = reconcileError(res.err)

IsRequeueAfter60(res) == res = reconcileRequeueAfter(requeueSeconds)

\* At most maxRetry waits and polls, and a returned result of exactly one
\* of the three kinds.
BoundedAndTyped ==
  /\ NumSleeps <= maxRetry
  /\ NumPolls <= maxRetry
  /\ pc = "done" =>
       /\ IsSuccess(result) \/ IsError(result) \/ IsRequeueAfter60(result)
       /\ ~(IsSuccess(result) /\ IsError(result))
       /\ ~(IsSuccess(result) /\ IsRequeueAfter60(result))
       /\ ~(IsError(result) /\ IsRequeueAfter60(result))

\* C15 - Bounded termination with a typed outcome: whatever the cluster
\* answers, the call makes at most maxRetry waits and maxRetry polls, returns,
\* and its result is exactly one of Success, Error(cause), RequeueAfter(60).
C15_BoundedTermination == []BoundedAndTyped /\ <>(pc = "done")

\* A call that used the whole budget of waits and polls and returned.
C15_Witness ==
  /\ pc = "done"
  /\ NumSleeps = maxRetry
  /\ NumPolls = maxRetry
  /\ IsRequeueAfter60(result)

\* The error of the call when the topology probe meets the not-ready pod i.
NotReadyError(i) ==
  reconcileError(Errorf("failed to get hostConn for aerospike cluster nodes",
                        <<"pod is not ready", ToString(podList[i].name)>>))

\* C16 as stated - Control-flow order: the topology probe comes before
\* namespace classification, so an attempt against a cluster with a
\* not-ready, non-ignorable pod, in which no call fails, ends in a not-ready
\* Error whatever the namespaces are.
C16_ProbeBeforeClassification ==
  /\ \A i \in Events("getClusterPodList") :
       \A j \in DOMAIN trace : trace[j].op \in ClassifierOps => i < j
  /\ (pc = "done" /\ Blocking # {} /\ NoCallFailed) =>
       \E i \in Blocking : result = NotReadyError(i)

\* C16 as amended - classification comes before the topology probe: the
\* probe is made only after a scope was selected and the readiness wait
\* succeeded, every classifier query preceding it; an attempt against a
\* cluster with a not-ready, non-ignorable pod, in which no call fails, ends
\* in a not-ready Error when a namespace qualifies, and in Success without a
\* probe when none does.
C16_ClassificationBeforeProbe ==
  /\ \A i \in Events("getClusterPodList") :
       /\ ns # 0
       /\ i > 1 /\ trace[i - 1] = Ev("waitForAllSTSToBeReady", ns, "ok")
       /\ \A j \in DOMAIN trace :
            trace[j].op \in ClassifierOps \cup {"getNamespaces"} => j < i
  /\ (pc = "done" /\ Blocking # {} /\ NoCallFailed) =>
       IF \E n \in DOMAIN namespaces : Qualifies(n)
         THEN /\ Events("getClusterPodList") # {}
              /\ \E i \in Blocking : result = NotReadyError(i)
         ELSE /\ Events("getClusterPodList") = {}
              /\ result = reconcileSuccess

\* A not-ready pod that is not ignorable and a namespace that does not
\* qualify: Success, and the pods were never listed.
C16_Witness ==
  /\ pc = "done"
  /\ Blocking # {}
  /\ Len(namespaces) = 1
  /\ NothingQualifies
  /\ NoCallFailed
  /\ result = reconcileSuccess
  /\ Events("getClusterPodList") = {}

\* The first listed namespace that is not strong-consistency (0: none).
FirstNonSC ==
  LET S == { j \in DOMAIN namespaces : ~namespaces[j].sc }
  IN IF S = {} THEN 0 ELSE CHOOSE j \in S : \A k \in S : j <= k

\* C17 as stated - Available-mode preference: when a namespace that is not
\* strong-consistency is listed, the selected scope is not strong-consistency.
C17_AvailableModePreferred ==
  (ns # 0 /\ FirstNonSC # 0) => ~namespaces[ns].sc

\* C17 as amended - listing order decides, not the mode: when a namespace
\* that is not strong-consistency is listed, the scope is the first such
\* namespace, whatever its roster says, exactly when no namespace listed
\* before it is strong-consistency with the target in roster; otherwise the
\* scope is the first of those earlier strong-consistency namespaces.
C17_ListingOrderDecides ==
  (ns # 0 /\ FirstNonSC # 0) =>
    LET Earlier == { j \in 1..(FirstNonSC - 1) : namespaces[j].inRoster }
    IN /\ ns <= FirstNonSC
       /\ Earlier = {} => ns = FirstNonSC
       /\ Earlier # {} => (ns \in Earlier /\ \A j \in Earlier : ns <= j)
       /\ ns = FirstNonSC => ~Seen("isNodeInRoster", ns, "true") /\ ~Seen("isNodeInRoster", ns, "false")

\* A strong-consistency namespace with the target in roster is listed before
\* one that is not strong-consistency, and is the scope.
C17_Witness ==
  /\ pc = "done"
  /\ Len(namespaces) = 2
  /\ namespaces[1].sc /\ namespaces[1].inRoster
  /\ ~namespaces[2].sc
  /\ ns = 1
  /\ NumPolls > 0

\* C18 - Wait precedes every poll: each poll, the first included, comes
\* right after the wait of its round; each wait is followed by its poll; so
\* once the loop is left the waits number the polls, and a cluster stable at
\* entry costs one wait before its one poll.
C18_WaitPrecedesPoll ==
  /\ \A i \in PollEvents :
       i > 1 /\ trace[i - 1] = Ev("Sleep", trace[i].arg, "ok")
  /\ \A i \in Events("Sleep") :
       IF i = Len(trace)
         THEN pc = "poll"
         ELSE trace[i + 1].op = "IsClusterAndStable" /\ trace[i + 1].arg = trace[i].arg
  /\ pc # "poll" => NumSleeps = NumPolls
  /\ pc = "poll" => NumSleeps = NumPolls + 1

\* The cluster was stable at the first poll: one wait, one poll.
C18_Witness ==
  /\ pc = "done"
  /\ Seen("IsClusterAndStable", 1, "stable")
  /\ NumSleeps = 1
  /\ NumPolls = 1

\* Position in the trace of the one call of op (0: not made).
At(op) == IF Events(op) = {} THEN 0 ELSE CHOOSE i \in Events(op) : TRUE

\* C19 - StatefulSet readiness gate: the readiness wait is the first thing
\* done once a scope is selected; when it fails the call returns Error and
\* makes no topology probe, stability poll or quiesce; otherwise the order
\* is readiness wait, topology probe, stability polls, quiesce.
C19_ReadinessGate ==
  /\ Cardinality(Events("waitForAllSTSToBeReady")) <= 1
  /\ Cardinality(Events("getClusterPodList")) <= 1
  /\ (ns # 0 /\ pc # "waitSTS") => At("waitForAllSTSToBeReady") # 0
  /\ \A i \in DOMAIN trace :
       trace[i].op \in {"getClusterPodList", "Sleep", "IsClusterAndStable", "InfoQuiesce"} =>
         /\ At("waitForAllSTSToBeReady") \in 1..(i - 1)
         /\ trace[At("waitForAllSTSToBeReady")].ans = "ok"
  /\ \A i \in DOMAIN trace :
       trace[i].op \in {"Sleep", "IsClusterAndStable", "InfoQuiesce"} =>
         /\ At("getClusterPodList") \in 1..(i - 1)
         /\ trace[At("getClusterPodList")].ans = "ok"
  /\ \A i \in Events("InfoQuiesce") : \A j \in PollEvents : j < i
  /\ Seen("waitForAllSTSToBeReady", ns, "error") =>
       /\ pc = "done"
       /\ result = reconcileError(Errorf("failed to wait for cluster to be ready",
                                         <<"statefulset not ready">>))
       /\ trace[Len(trace)].op = "waitForAllSTSToBeReady"
       /\ quiesced = <<>>

\* The readiness wait, the topology probe and two rounds of polling, in that
\* order.
C19_Witness ==
  /\ pc = "done"
  /\ At("waitForAllSTSToBeReady") # 0
  /\ At("getClusterPodList") = At("waitForAllSTSToBeReady") + 1
  /\ NumPolls = 2
  /\ \A i \in PollEvents : At("getClusterPodList") < i

\* The calls made on a heartbeat channel.
TipCalls(channel) == { i \in DOMAIN trace : trace[i].channel = channel }

\* C14 - Heartbeat hint calls: a finished tipHostname or tipClearHostname
\* has called the peer at most once per channel and never on a channel that
\* is not configured, TLS first; when no call failed it has made exactly one
\* call for each configured channel (none at all when neither is configured)
\* and returned nil; when a call failed, that call is the last one made and
\* its error is what is returned.
C14_HeartbeatHintCalls ==
  pc = "tipDone" =>
    /\ \A i \in DOMAIN trace :
         /\ trace[i].op = TipCall(args.op)
         /\ trace[i].conn = args.pod
         /\ trace[i].peer = args.clearPod
         /\ trace[i].arg # NilPort
         /\ trace[i].channel = "tls" => trace[i].arg = aeroCluster.heartbeatTlsPort
         /\ trace[i].channel = "plain" => trace[i].arg = aeroCluster.heartbeatPort
    /\ Cardinality(TipCalls("tls")) <= 1
    /\ Cardinality(TipCalls("plain")) <= 1
    /\ Cardinality(TipCalls("tls")) + Cardinality(TipCalls("plain")) = Len(trace)
    /\ \A i \in TipCalls("tls") : \A j \in TipCalls("plain") : i < j
    /\ \A i \in DOMAIN trace : trace[i].ans = "error" => i = Len(trace)
    /\ IF NoCallFailed
         THEN /\ ret.err = NilErr
              /\ (TipCalls("tls") # {}) = (aeroCluster.heartbeatTlsPort # NilPort)
              /\ (TipCalls("plain") # {}) = (aeroCluster.heartbeatPort # NilPort)
         ELSE /\ ret.err = <<trace[Len(trace)].op, trace[Len(trace)].channel, "failed">>
              /\ (TipCalls("tls") # {}) = (aeroCluster.heartbeatTlsPort # NilPort)

\* tipClearHostname with only the plain port configured: the TLS channel is
\* skipped, one call is made on the plain port and nil is returned.
C14_Witness ==
  /\ pc = "tipDone"
  /\ args.op = "tipClearHostname"
  /\ aeroCluster.heartbeatTlsPort = NilPort
  /\ aeroCluster.heartbeatPort # NilPort
  /\ Len(trace) = 1
  /\ trace[1].channel = "plain"
  /\ ret.err = NilErr

\* The items of the input: the pieces between the delimiters.
InputItems == Split(args.str, args.del)

\* The items that are not empty.
NonEmptyItems == { i \in DOMAIN InputItems : InputItems[i] # <<>> }

\* Positions at which sep occurs in item i.
SepPositions(i) ==
  { p \in 1..Len(InputItems[i]) :
      /\ p + Len(args.sep) - 1 <= Len(InputItems[i])
      /\ \A k \in 1..Len(args.sep) : InputItems[i][p + k - 1] = args.sep[k] }

FirstSep(i) == CHOOSE p \in SepPositions(i) : \A q \in SepPositions(i) : p <= q

\* The text of item i before its first sep, and all the text after it.
KeyOf(i) == SubSeq(InputItems[i], 1, FirstSep(i) - 1)

ValueOf(i) ==
  SubSeq(InputItems[i], FirstSep(i) + Len(args.sep), Len(InputItems[i]))

\* C20 - ParseInfoIntoMap: empty items are skipped; a non-empty item without
\* sep makes the call fail with an error naming the first such item and with
\* no map; otherwise the map's keys are the texts before the first sep of
\* the non-empty items, each mapped to all the text after the first sep of
\* the last item with that key; the empty input gives the empty map and no
\* error.
C20_ParseInfoIntoMap ==
  pc = "parseDone" =>
    LET Bad == { i \in NonEmptyItems : SepPositions(i) = {} }
    IN /\ args.str = <<>> => (ret.err = NilErr /\ ~ret.isNil /\ DOMAIN ret.m = {})
       /\ IF Bad # {}
            THEN /\ ret.isNil
                 /\ \E i \in Bad :
                      /\ \A j \in Bad : i <= j
                      /\ ret.err = <<"error parsing info item">> \o InputItems[i]
            ELSE /\ ret.err = NilErr
                 /\ ~ret.isNil
                 /\ DOMAIN ret.m = { KeyOf(i) : i \in NonEmptyItems }
                 /\ \A i \in NonEmptyItems :
                      (\A j \in NonEmptyItems : KeyOf(j) = KeyOf(i) => j <= i)
                        => ret.m[KeyOf(i)] = ValueOf(i)

\* "==;;=": an empty item is skipped, the first item's value keeps a sep,
\* and the last item overwrites the entry of the same (empty) key.
C20_Witness ==
  /\ pc = "parseDone"
  /\ args.del = <<";">>
  /\ args.sep = <<"=">>
  /\ Len(InputItems) = 3
  /\ InputItems[1] = <<"=", "=">>
  /\ InputItems[2] = <<>>
  /\ InputItems[3] = <<"=">>
  /\ ret.err = NilErr
  /\ DOMAIN ret.m = {<<>>}
  /\ ret.m[<<>>] = <<>>

====
